---- MODULE Spec2Model ----
(***************************************************************************)
(* Maximum entropy classifiers of nltk/classify/maxent.py:                 *)
(* the ConditionalExponentialClassifier object and the gis / iis trainers. *)
(*                                                                         *)
(* Floating point numbers are modelled as exact rationals <<n, d>> in      *)
(* lowest terms (d > 0); the single non-finite value NaN == <<0, 0>>       *)
(* stands for numpy's inf / nan and absorbs every operation.               *)
(***************************************************************************)
EXTENDS Integers, Sequences, FiniteSets, TLC

\* ------------------------------------------------------------------------
\* Bounds of the model
\* ------------------------------------------------------------------------
MaxWeights == 4
MaxBatch == 2
MaxIterations == 2

\* ------------------------------------------------------------------------
\* Rational arithmetic (python / numpy float arithmetic)
\* ------------------------------------------------------------------------
Abs(i) == IF i < 0 THEN -i ELSE i

RECURSIVE Gcd(_, _)
Gcd(a, b) == IF b = 0 THEN a ELSE Gcd(b, a % b)

NaN == <<0, 0>>

IsNaN(x) == x[2] = 0

\* the rational n/d in lowest terms; a zero denominator gives NaN
R(n, d) ==
  IF d = 0 THEN NaN
  ELSE LET g == Gcd(Abs(n), Abs(d))
           s == IF d < 0 THEN -1 ELSE 1
       IN  <<(s * n) \div g, (s * d) \div g>>

Zero == <<0, 1>>
One == <<1, 1>>

RAdd(x, y) == IF IsNaN(x) \/ IsNaN(y) THEN NaN
              ELSE R(x[1] * y[2] + y[1] * x[2], x[2] * y[2])

RSub(x, y) == IF IsNaN(x) \/ IsNaN(y) THEN NaN
              ELSE R(x[1] * y[2] - y[1] * x[2], x[2] * y[2])

RMul(x, y) == IF IsNaN(x) \/ IsNaN(y) THEN NaN
              ELSE R(x[1] * y[1], x[2] * y[2])

\* numpy division: a zero divisor gives a non-finite value, not an exception
RDiv(x, y) == IF IsNaN(x) \/ IsNaN(y) THEN NaN
              ELSE R(x[1] * y[2], x[2] * y[1])

RLt(x, y) == ~IsNaN(x) /\ ~IsNaN(y) /\ x[1] * y[2] < y[1] * x[2]

RLe(x, y) == ~IsNaN(x) /\ ~IsNaN(y) /\ x[1] * y[2] <= y[1] * x[2]

RAbs(x) == <<Abs(x[1]), x[2]>>

RNeg(x) == <<-x[1], x[2]>>

\* x ** k for an integer k >= 0 (python: 0.0 ** 0 == 1.0)
RECURSIVE RPowInt(_, _)
RPowInt(x, k) == IF k = 0 THEN One ELSE RMul(x, RPowInt(x, k - 1))

RECURSIVE RSum(_)
RSum(s) == IF s = <<>> THEN Zero ELSE RAdd(s[1], RSum(Tail(s)))

\* ------------------------------------------------------------------------
\* Sequences
\* ------------------------------------------------------------------------
Range(s) == {s[i] : i \in DOMAIN s}

RECURSIVE IndexOf(_, _)
IndexOf(s, x) == IF s[Len(s)] = x THEN Len(s) ELSE IndexOf(SubSeq(s, 1, Len(s) - 1), x)

\* all sequences over S of length lo..hi
SeqsOf(S, lo, hi) == UNION {[1..n -> S] : n \in lo..hi}

\* ------------------------------------------------------------------------
\* Observations, labels, training tokens
\* ------------------------------------------------------------------------
Feats == {"f", "g"}
FeatOrder == <<"f", "g">>
Observations == SUBSET Feats
Labels == {"A", "B"}
LabelOrder == <<"A", "B">>

Tok(fs, label) == [fs |-> fs, label |-> label]

\* ------------------------------------------------------------------------
\* Feature encodings (nltk.classify.util): a trained encoding is the frozen
\* list of known features; a feature's id is its position in the list.
\* ------------------------------------------------------------------------
Encoding(kind, known) == [kind |-> kind, known |-> known]

\* encoding.length()
length(enc) == Len(enc.known) + (IF enc.kind = "gis" THEN 1 ELSE 0)

\* GISEncoding.C()
C(enc) == Len(enc.known) + 1

RECURSIVE SparseEncode(_, _, _)
SparseEncode(known, fs, i) ==
  IF i > Len(known) THEN <<>>
  ELSE (IF known[i] \in fs THEN << <<i - 1, 1>> >> ELSE <<>>)
       \o SparseEncode(known, fs, i + 1)

\* encoding.encode(featureset): the sparse list of (id, value) pairs; the
\* GIS variant appends the correction feature C - total
encode(enc, fs) ==
  LET base == SparseEncode(enc.known, fs, 1)
  IN  IF enc.kind = "gis"
      THEN Append(base, <<Len(enc.known), C(enc) - Len(base)>>)
      ELSE base

\* ------------------------------------------------------------------------
\* ConditionalExponentialClassifier
\* ------------------------------------------------------------------------
NoClf == [labels |-> <<>>, encoding |-> Encoding("none", <<>>), weights |-> <<>>]

Classifier(ls, enc, ws) == [labels |-> ls, encoding |-> enc, weights |-> ws]

\* the assert of __init__ and set_weights
LengthOK(c, ws) == length(c.encoding) * Len(c.labels) = Len(ws)

\* prod of weights[id+offset] ** val over the feature vector; python raises
\* IndexError when id+offset is not an index of the weights
RECURSIVE Prod(_, _, _)
Prod(ws, fv, offset) ==
  IF fv = <<>> THEN One
  ELSE RMul(RPowInt(ws[fv[1][1] + offset + 1], fv[1][2]), Prod(ws, Tail(fv), offset))

IndexError(c, fv) ==
  \E i \in DOMAIN c.labels : \E k \in DOMAIN fv :
     fv[k][1] + (i - 1) * length(c.encoding) + 1 > Len(c.weights)

\* mutant of prob_dict: the offset of label i taken as i, not i * N
prob_dict_badoffset(c, fs) ==
  LET fv == encode(c.encoding, fs)
      last(l) == CHOOSE i \in DOMAIN c.labels :
                   /\ c.labels[i] = l
                   /\ \A j \in DOMAIN c.labels : c.labels[j] = l => j <= i
  IN  [l \in Range(c.labels) |-> Prod(c.weights, fv, last(l) - 1)]

\* prob_dict of probdist: label -> un-normalised score; a label listed
\* twice keeps its last score
prob_dict(c, fs) ==
  LET fv == encode(c.encoding, fs)
      last(l) == CHOOSE i \in DOMAIN c.labels :
                   /\ c.labels[i] = l
                   /\ \A j \in DOMAIN c.labels : c.labels[j] = l => j <= i
  IN  [l \in Range(c.labels) |-> Prod(c.weights, fv, (last(l) - 1) * length(c.encoding))]

RECURSIVE SumOver(_, _)
SumOver(f, S) ==
  IF S = {} THEN Zero
  ELSE LET x == CHOOSE y \in S : TRUE IN RAdd(f[x], SumOver(f, S \ {x}))

\* DictionaryProbDist(prob_dict, normalize=True)
DictionaryProbDist(pd) ==
  LET value_sum == SumOver(pd, DOMAIN pd)
  IN  [l \in DOMAIN pd |-> RDiv(pd[l], value_sum)]

\* probdist of one featureset
probdist(c, fs) == DictionaryProbDist(prob_dict(c, fs))

\* DictionaryProbDist.max(): the sample of greatest probability, the
\* greatest label among equals
LabelRank(l) == IndexOf(LabelOrder, l)

ProbMax(pd) ==
  CHOOSE l \in DOMAIN pd :
    \A m \in DOMAIN pd :
       m # l => \/ RLt(pd[m], pd[l])
                \/ (pd[m] = pd[l] /\ LabelRank(m) < LabelRank(l))
                \/ (IsNaN(pd[m]) /\ LabelRank(m) < LabelRank(l))
                \/ (IsNaN(pd[l]) /\ LabelRank(m) < LabelRank(l))

\* classify of one featureset
classify(c, fs) == ProbMax(probdist(c, fs))

\* ------------------------------------------------------------------------
\* State
\* ------------------------------------------------------------------------
VARIABLES
  pc,     \* where the caller is: "idle", inside a trainer, "live", "raised"
  clf,    \* the classifier object (labels, encoding, weights)
  ret,    \* the last call on the classifier and its outcome
  tr,     \* the local variables of the running gis / iis call
  hist    \* what the trainer has done so far (for stating properties)

clfvars == <<pc, clf, ret>>

vars == <<pc, clf, ret, tr, hist>>

NoRet == [op |-> "none", raised |-> "none", batch |-> FALSE, arg |-> <<>>, val |-> <<>>]

Ret(op, raised, batch, arg, val) ==
  [op |-> op, raised |-> raised, batch |-> batch, arg |-> arg, val |-> val]

\* arguments the caller passes
\* weight vectors of every length up to MaxWeights, filled cyclically from
\* a few patterns of zero, negative, fractional and large weights
WPatterns == {<<Zero>>, <<One>>, <<(<<-1, 1>>), (<<2, 1>>)>>,
              <<(<<2, 1>>), (<<1, 2>>), One>>,
              <<Zero, (<<2, 1>>), (<<1, 2>>)>>,
              <<(<<1, 2>>), Zero, (<<2, 1>>), (<<2, 1>>)>>}
WeightVectors ==
  {[i \in 1..n |-> p[((i - 1) % Len(p)) + 1]] : n \in 0..MaxWeights, p \in WPatterns}
LabelLists == {<<"A">>, <<"A", "B">>, <<"B", "A">>}
Encodings == {Encoding("sparse", <<"f", "g">>), Encoding("gis", <<"f">>)}
CallObservations == {{}, {"f"}, {"f", "g"}}
Batches == SeqsOf(CallObservations, 0, MaxBatch)

\* ------------------------------------------------------------------------
\* ConditionalExponentialClassifier: the operations
\* ------------------------------------------------------------------------
\* __init__(labels, encoding, weights): a failed assert leaves the caller
\* without an object
Construct(ls, enc, ws) ==
  /\ pc = "idle"
  /\ LET c == Classifier(ls, enc, ws)
     IN  IF LengthOK(c, ws)
         THEN /\ clf' = c
              /\ pc' = "live"
              /\ ret' = Ret("init", "none", FALSE, c, <<>>)
         ELSE /\ clf' = clf
              /\ pc' = pc
              /\ ret' = Ret("init", "AssertionError", FALSE, c, <<>>)
  /\ UNCHANGED <<tr, hist>>

\* the body of set_weights: the assignment, then the assert
set_weights(c, new_weights) == [c EXCEPT !.weights = new_weights]

set_weights_raises_nocheck(c, new_weights) == "none"

set_weights_raises(c, new_weights) ==
  IF LengthOK(c, new_weights) THEN "none" ELSE "AssertionError"

SetWeights(new_weights) ==
  /\ pc = "live"
  /\ clf' = set_weights(clf, new_weights)
  /\ ret' = Ret("set_weights", set_weights_raises(clf, new_weights), FALSE,
                new_weights, <<>>)
  /\ pc' = pc
  /\ UNCHANGED <<tr, hist>>

\* what one probdist call raises: a weight index out of range, or (when
\* the weights are python floats, pyfloat) the division by a zero sum
ProbdistRaises(c, fs, pyfloat) ==
  IF IndexError(c, encode(c.encoding, fs)) THEN "IndexError"
  ELSE IF pyfloat /\ SumOver(prob_dict(c, fs), Range(c.labels)) = Zero
       THEN "ZeroDivisionError"
       ELSE "none"

RECURSIVE FirstRaise(_, _, _)
FirstRaise(c, batch, pyfloat) ==
  IF batch = <<>> THEN "none"
  ELSE IF ProbdistRaises(c, batch[1], pyfloat) # "none"
       THEN ProbdistRaises(c, batch[1], pyfloat)
       ELSE FirstRaise(c, Tail(batch), pyfloat)

\* batch mode: [self.probdist(fs) for fs in featureset]
RECURSIVE batch_probdist(_, _)
batch_probdist(c, batch) ==
  IF batch = <<>> THEN <<>>
  ELSE <<probdist(c, batch[1])>> \o batch_probdist(c, Tail(batch))

\* mutant of batch_classify: the results collected in reverse order
RECURSIVE batch_classify_reversed(_, _)
batch_classify_reversed(c, batch) ==
  IF batch = <<>> THEN <<>>
  ELSE batch_classify_reversed(c, Tail(batch)) \o <<classify(c, batch[1])>>

\* batch mode: [self.classify(fs) for fs in featureset]
RECURSIVE batch_classify(_, _)
batch_classify(c, batch) ==
  IF batch = <<>> THEN <<>>
  ELSE <<classify(c, batch[1])>> \o batch_classify(c, Tail(batch))

Probdist(fs, pyfloat) ==
  /\ pc = "live"
  /\ LET e == ProbdistRaises(clf, fs, pyfloat)
     IN  ret' = Ret("probdist", e, FALSE, fs,
                    IF e = "none" THEN probdist(clf, fs) ELSE <<>>)
  /\ UNCHANGED <<pc, clf, tr, hist>>

ProbdistBatch(batch, pyfloat) ==
  /\ pc = "live"
  /\ LET e == FirstRaise(clf, batch, pyfloat)
     IN  ret' = Ret("probdist", e, TRUE, batch,
                    IF e = "none" THEN batch_probdist(clf, batch) ELSE <<>>)
  /\ UNCHANGED <<pc, clf, tr, hist>>

Classify(fs, pyfloat) ==
  /\ pc = "live"
  /\ LET e == ProbdistRaises(clf, fs, pyfloat)
     IN  ret' = Ret("classify", e, FALSE, fs,
                    IF e = "none" THEN classify(clf, fs) ELSE "")
  /\ UNCHANGED <<pc, clf, tr, hist>>

ClassifyBatch(batch, pyfloat) ==
  /\ pc = "live"
  /\ LET e == FirstRaise(clf, batch, pyfloat)
     IN  ret' = Ret("classify", e, TRUE, batch,
                    IF e = "none" THEN batch_classify(clf, batch) ELSE <<>>)
  /\ UNCHANGED <<pc, clf, tr, hist>>

\* ------------------------------------------------------------------------
\* Properties of the classifier object
\* ------------------------------------------------------------------------
\* C1: in every state of a classifier, also after a rejected set_weights,
\* len(weights()) == encoding.length() * len(labels())
C1_LengthInvariant ==
  pc = "live" => Len(clf.weights) = length(clf.encoding) * Len(clf.labels)

\* C2: a constructor or set_weights call with a weight vector of the wrong
\* length raises in that call (and a failed constructor yields no object)
C2_MismatchRaises ==
  /\ (ret.op = "init"
        /\ Len(ret.arg.weights) # length(ret.arg.encoding) * Len(ret.arg.labels))
     => (ret.raised = "AssertionError" /\ pc = "idle" /\ clf = NoClf)
  /\ (ret.op = "set_weights"
        /\ Len(ret.arg) # length(clf.encoding) * Len(clf.labels))
     => ret.raised = "AssertionError"

C2_Witness ==
  /\ ret.op = "set_weights"
  /\ Len(ret.arg) = length(clf.encoding) * Len(clf.labels) + 1
  /\ ret.raised = "AssertionError"

\* the score the claim C6 states: the product over the active (id, value)
\* pairs of weight[id + label_index * N] ** value
RECURSIVE ScoreOf(_, _, _, _)
ScoreOf(c, fv, label_index, k) ==
  IF k > Len(fv) THEN One
  ELSE RMul(RPowInt(c.weights[fv[k][1] + label_index * length(c.encoding) + 1], fv[k][2]),
            ScoreOf(c, fv, label_index, k + 1))

ScoreSum(c, fv) ==
  RSum([i \in DOMAIN c.labels |-> ScoreOf(c, fv, i - 1, 1)])

ProbdistShape(c, fv, pd) ==
  /\ SumOver(pd, DOMAIN pd) = One
  /\ \A l \in DOMAIN pd : RLe(Zero, pd[l]) /\ RLe(pd[l], One)
  /\ \A i \in DOMAIN c.labels :
       pd[c.labels[i]] = RDiv(ScoreOf(c, fv, i - 1, 1), ScoreSum(c, fv))

\* C6 as stated: for any classifier and observation, probdist(o) sums to
\* 1 with every value in [0,1], the scores being the stated products
C6_AnyClassifier ==
  (ret.op = "probdist" /\ ~ret.batch)
  => /\ ret.raised = "none"
     /\ ProbdistShape(clf, encode(clf.encoding, ret.arg), ret.val)

\* every weight an active feature of o uses exists and is not negative,
\* and some label has a non-zero score
C6_Defined(c, fv) ==
  /\ \A i \in DOMAIN c.labels : \A k \in DOMAIN fv :
       LET j == fv[k][1] + (i - 1) * length(c.encoding) + 1
       IN  j <= Len(c.weights) /\ RLe(Zero, c.weights[j])
  /\ ScoreSum(c, fv) # Zero

\* C6 amended: when every weight used by o exists and is non-negative and
\* some label's score is non-zero, probdist(o) returns, sums to 1, has
\* every value in [0,1], and is the normalised product of weight ** value
C6_DefinedClassifier ==
  (ret.op = "probdist" /\ ~ret.batch /\ C6_Defined(clf, encode(clf.encoding, ret.arg)))
  => /\ ret.raised = "none"
     /\ ProbdistShape(clf, encode(clf.encoding, ret.arg), ret.val)

C6_Witness ==
  /\ ret.op = "probdist" /\ ~ret.batch /\ ret.raised = "none"
  /\ Len(clf.labels) = 2
  /\ C6_Defined(clf, encode(clf.encoding, ret.arg))
  /\ ret.val["A"] = <<4, 5>>

\* C7: a batch call returns the per-observation results in order and of
\* the same length, and no classify / probdist call changes the classifier
C7_BatchResult ==
  (ret.batch /\ ret.raised = "none")
  => /\ Len(ret.val) = Len(ret.arg)
     /\ \A i \in DOMAIN ret.arg :
          /\ ret.op = "classify" => ret.val[i] = classify(clf, ret.arg[i])
          /\ ret.op = "probdist" => ret.val[i] = probdist(clf, ret.arg[i])

C7_BatchEquivalence ==
  /\ []C7_BatchResult
  /\ [][ret'.op \in {"classify", "probdist"} => clf' = clf]_vars

C7_Witness ==
  /\ ret.op = "classify" /\ ret.batch /\ ret.raised = "none"
  /\ Len(ret.arg) = 2
  /\ ret.val[1] # ret.val[2]

\* ------------------------------------------------------------------------
\* Floating point functions.  A float result is the exact result rounded to
\* the model's precision (multiples of 1/Prec; a non-zero value never
\* rounds to zero); 2 ** x and log2 are interpolated linearly between the
\* integer exponents, where they are exact.
\* ------------------------------------------------------------------------
Prec == 8

\* floor of a finite rational
Floor(x) == x[1] \div x[2]

RECURSIVE IPow2(_)
IPow2(k) == IF k = 0 THEN 1 ELSE 2 * IPow2(k - 1)

\* 2 ** k for an integer k
Pow2(k) == IF k >= 0 THEN R(IPow2(k), 1) ELSE R(1, IPow2(-k))

\* rounding to the precision of the model
Fl(x) ==
  IF IsNaN(x) THEN NaN
  ELSE LET r == R(Floor(RAdd(RMul(x, R(Prec, 1)), R(1, 2))), Prec)
       IN  IF r = Zero /\ x # Zero
           THEN (IF x[1] > 0 THEN R(1, Prec) ELSE R(-1, Prec))
           ELSE r

\* rounding to the nearest multiple of 1/Prec
Rnd(x) ==
  IF IsNaN(x) THEN NaN
  ELSE R(Floor(RAdd(RMul(x, R(Prec, 1)), R(1, 2))), Prec)

\* 2 ** x
Exp2(x) ==
  IF IsNaN(x) THEN NaN
  ELSE LET k == Floor(x) IN RMul(Pow2(k), RAdd(One, RSub(x, R(k, 1))))

\* the integer k with 2**k <= x < 2**(k+1), for x > 0
RECURSIVE ILog2(_)
ILog2(x) ==
  IF RLt(x, One) THEN ILog2(RMul(x, R(2, 1))) - 1
  ELSE IF RLe(R(2, 1), x) THEN ILog2(RDiv(x, R(2, 1))) + 1
  ELSE 0

\* log2(x); non-finite for x <= 0
Log2(x) ==
  IF IsNaN(x) \/ x[1] <= 0 THEN NaN
  ELSE LET k == ILog2(x) IN RAdd(R(k, 1), RSub(RDiv(x, Pow2(k)), One))

\* x ** y for a float exponent y > 0 (numpy: 0 ** y == 0, negative ** y is nan)
Pow(x, y) ==
  IF IsNaN(x) \/ IsNaN(y) THEN NaN
  ELSE IF x = Zero THEN Zero
  ELSE IF x[1] < 0 THEN NaN
  ELSE Fl(Exp2(RMul(y, Log2(x))))

\* math.log(x) = log2(x) * ln 2
Ln(x) == Fl(RMul(Log2(x), R(7, 10)))

\* ------------------------------------------------------------------------
\* Training corpora and the helpers of nltk.classify.util
\* ------------------------------------------------------------------------
\* attested_labels(train_toks): the labels of the corpus, in a fixed order
attested_labels(train_toks) ==
  LET present == {t.label : t \in Range(train_toks)}
  IN  SelectSeq(LabelOrder, LAMBDA l : l \in present)

\* Encoding.train(train_toks): the features of the corpus, in a fixed order
train(kind, train_toks) ==
  LET seen == UNION {t.fs : t \in Range(train_toks)}
  IN  Encoding(kind, SelectSeq(FeatOrder, LAMBDA f : f \in seen))

\* classifier_log_likelihood: the mean of ln P(label | tok)
classifier_log_likelihood(c, train_toks) ==
  Fl(RDiv(RSum([n \in DOMAIN train_toks |->
                  Ln(probdist(c, train_toks[n].fs)[train_toks[n].label])]),
          R(Len(train_toks), 1)))

\* classifier_accuracy: the fraction of tokens classified as labelled
classifier_accuracy(c, train_toks) ==
  RDiv(RSum([n \in DOMAIN train_toks |->
               IF classify(c, train_toks[n].fs) = train_toks[n].label
               THEN One ELSE Zero]),
       R(Len(train_toks), 1))

\* ------------------------------------------------------------------------
\* The trainers: local variables
\* ------------------------------------------------------------------------
None == <<>>
Unbound == <<0, 0, 0>>

NoKwargs ==
  [keys |-> {}, iterations |-> 0, iter |-> 0, debug |-> 0, labels |-> <<>>,
   ll |-> Zero, lldelta |-> Zero, acc |-> Zero, accdelta |-> Zero]

NoFrame ==
  [trainer |-> "none", train_toks |-> <<>>, kwargs |-> NoKwargs,
   iterations |-> 0, debug |-> 0, labels |-> <<>>,
   ll_cutoff |-> None, lldelta_cutoff |-> None,
   acc_cutoff |-> None, accdelta_cutoff |-> None,
   encoding |-> Encoding("none", <<>>), offsets |-> <<>>,
   emperical_fcount |-> <<>>, emperical_ffreq |-> <<>>, unattested |-> <<>>,
   nfmap |-> <<>>, nfarray |-> <<>>,
   ll_old |-> Unbound, acc_old |-> Unbound, ll |-> Unbound, acc |-> Unbound,
   iternum |-> 0, exc |-> "none"]

NoHist ==
  [sets |-> 0, ws |-> <<>>, lls |-> <<>>, accs |-> <<>>, newton |-> <<>>, broke |-> FALSE]

\* the keyword names: those of the iis docstring, the alias iis also reads,
\* the parameter names of gis, and a name neither trainer knows
DocKeys == {"iterations", "debug", "labels", "log_likelihood_cutoff",
            "delta_log_likelihood_cutoff", "accuracy_cutoff",
            "delta_accuracy_cutoff"}
\* mutant of IisKeys: a misspelt key is let through
IisKeys_lenient == DocKeys \cup {"iter", "verbose"}

IisKeys == DocKeys \cup {"iter"}
GisKeys == {"ll_cutoff", "lldelta_cutoff", "acc_cutoff", "accdelta_cutoff",
            "debug", "iterations"}
Keys == IisKeys \cup GisKeys \cup {"verbose"}

MaxKeys == 2
KwLabelLists == {<<"A", "B">>, <<"A", "B", "C">>}
DebugVals == {0, 3}
CutVals == {R(1, 8), R(-7, 8)}

\* the value given for the log-likelihood (accuracy) cutoffs, under either
\* trainer's name for them
LLKeys == {"log_likelihood_cutoff", "ll_cutoff"}
LLDeltaKeys == {"delta_log_likelihood_cutoff", "lldelta_cutoff"}
AccKeys == {"accuracy_cutoff", "acc_cutoff"}
AccDeltaKeys == {"delta_accuracy_cutoff", "accdelta_cutoff"}

KeySets == {ks \in SUBSET Keys : Cardinality(ks) <= MaxKeys}

\* the keyword dictionaries with the keys ks: a value for every key given
KwargsOf(ks) ==
  [keys : {ks},
   iterations : IF "iterations" \in ks THEN 0..MaxIterations ELSE {0},
   iter : IF "iter" \in ks THEN 0..MaxIterations ELSE {0},
   debug : IF "debug" \in ks THEN DebugVals ELSE {0},
   labels : IF "labels" \in ks THEN KwLabelLists ELSE {<<>>},
   ll : IF ks \cap LLKeys # {} THEN CutVals ELSE {Zero},
   lldelta : IF ks \cap LLDeltaKeys # {} THEN CutVals ELSE {Zero},
   acc : IF ks \cap AccKeys # {} THEN CutVals ELSE {Zero},
   accdelta : IF ks \cap AccDeltaKeys # {} THEN CutVals ELSE {Zero}]

Kwargs == UNION {KwargsOf(ks) : ks \in KeySets}

\* training corpora
Corpora ==
  {<<Tok({"f"}, "A"), Tok({}, "B")>>,
   <<Tok({"f"}, "A"), Tok({"g"}, "A"), Tok({"f", "g"}, "B")>>,
   <<Tok({}, "A"), Tok({}, "A"), Tok({"f"}, "A"), Tok({"f"}, "B"), Tok({"f"}, "B")>>}

\* ------------------------------------------------------------------------
\* Generalized Iterative Scaling
\* ------------------------------------------------------------------------
\* the value a feature vector gives to an id (zero when the id is inactive)
ValAt(fv, id) ==
  R(RSum([k \in DOMAIN fv |-> IF fv[k][1] = id THEN R(fv[k][2], 1) ELSE Zero])[1], 1)

\* offsets: label -> index where that label's weights begin
Offsets(ls, enc) == [l \in Range(ls) |-> (IndexOf(ls, l) - 1) * length(enc)]

calculate_emperical_fcount(train_toks, enc, offsets) ==
  [j \in 1..(length(enc) * Cardinality(DOMAIN offsets)) |->
     RSum([n \in DOMAIN train_toks |->
             ValAt(encode(enc, train_toks[n].fs), j - 1 - offsets[train_toks[n].label])])]

calculate_estimated_fcount(c, train_toks, enc, offsets) ==
  [j \in 1..(length(enc) * Cardinality(DOMAIN offsets)) |->
     RSum([n \in DOMAIN train_toks |->
             LET pdist == probdist(c, train_toks[n].fs)
                 fv == encode(enc, train_toks[n].fs)
                 term == [l \in DOMAIN offsets |->
                            RMul(pdist[l], ValAt(fv, j - 1 - offsets[l]))]
             IN  SumOver(term, DOMAIN offsets)])]

\* 1 wherever the empirical count is zero
Unattested(emperical) ==
  [j \in DOMAIN emperical |-> IF emperical[j] = Zero THEN One ELSE Zero]

\* weights = ones - unattested
InitialWeights(unattested) ==
  [j \in DOMAIN unattested |-> RSub(One, unattested[j])]

\* mutant of AvoidZero: the unattested mask is not added
AvoidZero_unmasked(estimated_fcount, unattested) == estimated_fcount

\* estimated_fcount += unattested
AvoidZero(estimated_fcount, unattested) ==
  [j \in DOMAIN estimated_fcount |-> RAdd(estimated_fcount[j], unattested[j])]

\* weights *= (emperical_fcount / estimated_fcount) ** Cinv
GisUpdate(ws, emperical_fcount, estimated_fcount, Cinv) ==
  [j \in DOMAIN ws |->
     Fl(RMul(ws[j], Pow(RDiv(emperical_fcount[j], estimated_fcount[j]), Cinv)))]

\* mutant of Report: the values computed for the report are kept as the
\* previous iteration's values
Report_kept(f, c) ==
  IF f.debug > 2
  THEN [f EXCEPT !.ll = classifier_log_likelihood(c, f.train_toks),
                 !.acc = classifier_accuracy(c, f.train_toks),
                 !.ll_old = classifier_log_likelihood(c, f.train_toks),
                 !.acc_old = classifier_accuracy(c, f.train_toks)]
  ELSE f

\* the log-likelihood and accuracy evaluated for the report when debug > 2
\* (gis lines 163-166 and 197-200, iis lines 347-350 and 378-381)
Report(f, c) ==
  IF f.debug > 2
  THEN [f EXCEPT !.ll = classifier_log_likelihood(c, f.train_toks),
                 !.acc = classifier_accuracy(c, f.train_toks)]
  ELSE f

\* mutant of RangeHasNext: the loop makes one pass too many
RangeHasNext_extra(iternum, iterations) == iternum <= iterations

\* for iternum in range(iterations): whether the loop has another pass
RangeHasNext(iternum, iterations) == iternum < iterations

\* python truth value of ll_old / acc_old
Truthy(x) == x # None /\ x # Zero

\* gis, lines 181-187: the log-likelihood cutoffs after an update
GisCheckLL(f, c) ==
  IF f.ll_cutoff = None /\ f.lldelta_cutoff = None
  THEN [brk |-> FALSE, ll |-> f.ll, ll_old |-> f.ll_old, seen |-> <<>>]
  ELSE LET ll == CHOOSE v \in {classifier_log_likelihood(c, f.train_toks)} : TRUE
           b1 == f.ll_cutoff # None /\ RLe(RNeg(RAbs(f.ll_cutoff)), ll)
           b2 == /\ ~b1 /\ f.lldelta_cutoff # None /\ Truthy(f.ll_old)
                 /\ RLe(RSub(ll, f.ll_old), f.lldelta_cutoff)
       IN  [brk |-> b1 \/ b2, ll |-> ll,
            ll_old |-> IF ~b1 /\ ~b2 /\ f.lldelta_cutoff # None THEN ll ELSE f.ll_old,
            seen |-> <<ll>>]

\* gis, lines 189-195: the accuracy cutoffs after an update
GisCheckAcc(f, c) ==
  IF f.acc_cutoff = None /\ f.accdelta_cutoff = None
  THEN [brk |-> FALSE, acc |-> f.acc, acc_old |-> f.acc_old, seen |-> <<>>]
  ELSE LET acc == CHOOSE v \in {classifier_accuracy(c, f.train_toks)} : TRUE
           b1 == f.acc_cutoff # None /\ RLe(f.acc_cutoff, acc)
           b2 == /\ ~b1 /\ f.accdelta_cutoff # None /\ Truthy(f.acc_old)
                 /\ RLe(RSub(f.acc_old, acc), f.accdelta_cutoff)
       IN  [brk |-> b1 \/ b2, acc |-> acc,
            acc_old |-> IF ~b1 /\ ~b2 /\ f.accdelta_cutoff # None THEN acc ELSE f.acc_old,
            seen |-> <<acc>>]

\* the call of gis up to the loop (lines 109-159); python rejects a keyword
\* that is not a parameter of gis before the body runs
GisCall(train_toks, kw) ==
  /\ pc = "idle"
  /\ ret' = ret
  /\ hist' = NoHist
  /\ IF ~(kw.keys \subseteq GisKeys)
     THEN /\ pc' = "raised"
          /\ clf' = clf
          /\ tr' = [NoFrame EXCEPT !.trainer = "gis", !.train_toks = train_toks,
                                   !.kwargs = kw, !.exc = "TypeError"]
     ELSE \E labels \in {attested_labels(train_toks)} :
          \E encoding \in {train("gis", train_toks)} :
          \E offsets \in {Offsets(labels, encoding)} :
          \E emperical_fcount \in
               {calculate_emperical_fcount(train_toks, encoding, offsets)} :
          \E unattested \in {Unattested(emperical_fcount)} :
          \E weights \in {InitialWeights(unattested)} :
          \E classifier \in {Classifier(labels, encoding, weights)} :
          \E f \in {[NoFrame EXCEPT
                      !.trainer = "gis", !.train_toks = train_toks, !.kwargs = kw,
                      !.iterations = IF "iterations" \in kw.keys THEN kw.iterations ELSE 10,
                      !.debug = IF "debug" \in kw.keys THEN kw.debug ELSE 3,
                      !.ll_cutoff = IF "ll_cutoff" \in kw.keys THEN kw.ll ELSE None,
                      !.lldelta_cutoff = IF "lldelta_cutoff" \in kw.keys THEN kw.lldelta ELSE None,
                      !.acc_cutoff = IF "acc_cutoff" \in kw.keys THEN kw.acc ELSE None,
                      !.accdelta_cutoff = IF "accdelta_cutoff" \in kw.keys THEN kw.accdelta ELSE None,
                      !.labels = labels, !.encoding = encoding, !.offsets = offsets,
                      !.emperical_fcount = emperical_fcount, !.unattested = unattested,
                      !.ll_old = None, !.acc_old = None]} :
              IF LengthOK(classifier, weights)
              THEN /\ clf' = classifier
                   /\ tr' = f
                   /\ pc' = "gis_loop"
              ELSE /\ clf' = clf
                   /\ tr' = [f EXCEPT !.exc = "AssertionError"]
                   /\ pc' = "raised"

\* one outer iteration of gis (lines 162-195)
GisIterate ==
  /\ pc = "gis_loop"
  /\ RangeHasNext(tr.iternum, tr.iterations)
  /\ ret' = ret
  /\ \E f0 \in {Report(tr, clf)} :
     \E estimated_fcount \in
          {AvoidZero(calculate_estimated_fcount(clf, tr.train_toks, tr.encoding, tr.offsets),
                     tr.unattested)} :
     \E weights \in {GisUpdate(clf.weights, tr.emperical_fcount, estimated_fcount,
                               R(1, C(tr.encoding)))} :
     \E c \in {set_weights(clf, weights)} :
     \E cl \in {GisCheckLL(f0, c)} :
     \E f1 \in {[f0 EXCEPT !.ll = cl.ll, !.ll_old = cl.ll_old]} :
     \E ca \in {IF cl.brk
                THEN [brk |-> FALSE, acc |-> f1.acc, acc_old |-> f1.acc_old, seen |-> <<>>]
                ELSE GisCheckAcc(f1, c)} :
     \E f2 \in {[f1 EXCEPT !.acc = ca.acc, !.acc_old = ca.acc_old]} :
     \E h \in {[hist EXCEPT !.sets = @ + 1, !.ws = @ \o <<weights>>,
                            !.lls = @ \o cl.seen, !.accs = @ \o ca.seen]} :
         /\ clf' = c
         /\ IF set_weights_raises(clf, weights) # "none"
            THEN /\ pc' = "raised"
                 /\ tr' = [f0 EXCEPT !.exc = "AssertionError"]
                 /\ hist' = [hist EXCEPT !.sets = @ + 1, !.ws = @ \o <<weights>>]
            ELSE IF cl.brk \/ ca.brk
            THEN /\ pc' = "gis_break"
                 /\ tr' = f2
                 /\ hist' = [h EXCEPT !.broke = TRUE]
            ELSE /\ pc' = "gis_loop"
                 /\ tr' = [f2 EXCEPT !.iternum = @ + 1]
                 /\ hist' = h

\* after the loop (lines 197-203): the final report and the return
GisReturn ==
  /\ \/ pc = "gis_loop" /\ ~RangeHasNext(tr.iternum, tr.iterations)
     \/ pc = "gis_break"
  /\ pc' = "live"
  /\ tr' = Report(tr, clf)
  /\ UNCHANGED <<clf, ret, hist>>

\* ------------------------------------------------------------------------
\* Improved Iterative Scaling
\* ------------------------------------------------------------------------
MAX_NEWTON == 300

\* n_error < NEWTON_CONVERGE (1e-12): a number of the model is zero or
\* at least 2 ** -31 in magnitude, so only a zero residual is below 1e-12
BelowNewtonConverge(n_error) == ~IsNaN(n_error) /\ RLe(n_error, Zero)

\* nf(t): the sum of the feature values of a token
Nf(enc, fs) ==
  LET fv == encode(enc, fs) IN RSum([k \in DOMAIN fv |-> R(fv[k][2], 1)])[1]

\* the orders in which python may enumerate a set
Enumerations(S) ==
  {order \in [1..Cardinality(S) -> S] : \A a \in S : \E i \in DOMAIN order : order[i] = a}

\* calculate_nfmap: dict([(nf, i) for (i, nf) in enumerate(nfset)]), for
\* the (unspecified) order in which python enumerates the set
calculate_nfmap(train_toks, enc) ==
  LET nfset == {Nf(enc, t.fs) : t \in Range(train_toks)}
  IN  {[nf \in nfset |-> (CHOOSE i \in DOMAIN order : order[i] = nf) - 1]
         : order \in Enumerations(nfset)}

\* mutant of NfArray: the keys sorted by themselves, not by their index
NfArray_bykey(nfmap) ==
  [k \in 1..Cardinality(DOMAIN nfmap) |->
     CHOOSE nf \in DOMAIN nfmap : Cardinality({m \in DOMAIN nfmap : m < nf}) = k - 1]

\* nfarray = sorted(nfmap, key=nfmap.__getitem__)
NfArray(nfmap) ==
  [k \in 1..Cardinality(DOMAIN nfmap) |-> CHOOSE nf \in DOMAIN nfmap : nfmap[nf] = k - 1]

\* emperical_ffreq = calculate_emperical_fcount(...) / len(train_toks)
EmpericalFfreq(emperical_fcount, n) ==
  [j \in DOMAIN emperical_fcount |-> RDiv(emperical_fcount[j], R(n, 1))]

\* the A matrix of calculate_deltas (lines 497-510)
AMatrix(train_toks, c, nfmap, offsets, enc) ==
  [k \in 1..Cardinality(DOMAIN nfmap) |->
     [i \in 1..(length(enc) * Cardinality(DOMAIN offsets)) |->
        RDiv(RSum([n \in DOMAIN train_toks |->
                     IF nfmap[Nf(enc, train_toks[n].fs)] # k - 1 THEN Zero
                     ELSE LET dist == probdist(c, train_toks[n].fs)
                              fv == encode(enc, train_toks[n].fs)
                              term == [l \in DOMAIN offsets |->
                                         RMul(dist[l], ValAt(fv, i - 1 - offsets[l]))]
                          IN  SumOver(term, DOMAIN offsets)]),
             R(Len(train_toks), 1))]]

\* sum1 and sum2 of one Newton step (lines 521-528)
Sum1(A, nfarray, deltas) ==
  [i \in DOMAIN deltas |->
     RSum([k \in DOMAIN nfarray |->
             RMul(Exp2(RMul(R(nfarray[k], 1), deltas[i])), A[k][i])])]

Sum2(A, nfarray, deltas, unattested) ==
  [i \in DOMAIN deltas |->
     RAdd(RSum([k \in DOMAIN nfarray |->
                  RMul(RMul(R(nfarray[k], 1), Exp2(RMul(R(nfarray[k], 1), deltas[i]))),
                       A[k][i])]),
          unattested[i])]

\* deltas -= (ffreq_emperical - sum1) / -sum2
NewtonStep(deltas, ffreq_emperical, sum1, sum2) ==
  [i \in DOMAIN deltas |->
     Rnd(RSub(deltas[i], RDiv(RSub(ffreq_emperical[i], sum1[i]), RNeg(sum2[i]))))]

\* n_error (lines 534-535)
NError(ffreq_emperical, sum1, deltas) ==
  RDiv(RSum([i \in DOMAIN deltas |-> RAbs(RSub(ffreq_emperical[i], sum1[i]))]),
       RSum([i \in DOMAIN deltas |-> RAbs(deltas[i])]))

\* one pass of the Newton loop body (lines 521-537) from the loop state
\* st = (deltas, steps taken, returned early); a pass after the early
\* return does nothing.  (sum1 and the new deltas are bound through
\* singleton sets so that each is evaluated once.)
NewtonPass(st, A, nfarray, unattested, ffreq_emperical) ==
  IF st.returned THEN st
  ELSE CHOOSE r \in
         UNION {{[deltas |-> d, steps |-> st.steps + 1,
                  returned |-> BelowNewtonConverge(NError(ffreq_emperical, sum1, d))]
                   : d \in {NewtonStep(st.deltas, ffreq_emperical, sum1,
                                       Sum2(A, nfarray, st.deltas, unattested))}}
                  : sum1 \in {Sum1(A, nfarray, st.deltas)}} : TRUE

\* n consecutive passes of the loop.  Once a pass leaves the deltas as
\* they are (without returning) every later pass repeats it, so only the
\* step count advances; otherwise the passes are split in halves to keep
\* the evaluation shallow.
RECURSIVE Newton(_, _, _, _, _, _)
Newton(st, n, A, nfarray, unattested, ffreq_emperical) ==
  IF n = 0 \/ st.returned THEN st
  ELSE CHOOSE r \in
         {IF n = 1 THEN p
          ELSE IF p.deltas = st.deltas /\ ~p.returned
               THEN [p EXCEPT !.steps = st.steps + n]
               ELSE Newton(Newton(p, (n - 1) \div 2, A, nfarray, unattested, ffreq_emperical),
                           (n - 1) - ((n - 1) \div 2),
                           A, nfarray, unattested, ffreq_emperical)
            : p \in {NewtonPass(st, A, nfarray, unattested, ffreq_emperical)}} : TRUE

\* mutant of calculate_deltas: the deltas start from zero
calculate_deltas_fromzero(train_toks, c, unattested, ffreq_emperical, nfmap, nfarray, offsets, enc) ==
  CHOOSE r \in
    {Newton([deltas |-> deltas, steps |-> 0, returned |-> FALSE], MAX_NEWTON,
            A, nfarray, unattested, ffreq_emperical)
       : deltas \in {[i \in 1..(length(enc) * Cardinality(DOMAIN offsets)) |-> Zero]},
         A \in {AMatrix(train_toks, c, nfmap, offsets, enc)}} : TRUE

\* for rangenum in range(MAX_NEWTON): ...; return deltas
calculate_deltas(train_toks, c, unattested, ffreq_emperical, nfmap, nfarray, offsets, enc) ==
  CHOOSE r \in
    {Newton([deltas |-> deltas, steps |-> 0, returned |-> FALSE], MAX_NEWTON,
            A, nfarray, unattested, ffreq_emperical)
       : deltas \in {[i \in 1..(length(enc) * Cardinality(DOMAIN offsets)) |-> One]},
         A \in {AMatrix(train_toks, c, nfmap, offsets, enc)}} : TRUE

\* weights *= 2 ** deltas
IisUpdate(ws, deltas) ==
  [j \in DOMAIN ws |-> Fl(RMul(ws[j], Exp2(deltas[j])))]

\* iis, lines 362-368: the log-likelihood cutoffs after an update; reading
\* ll_old before any assignment raises UnboundLocalError
IisCheckLL(f, c) ==
  IF f.ll_cutoff = None /\ f.lldelta_cutoff = None
  THEN [brk |-> FALSE, exc |-> "none", ll |-> f.ll, ll_old |-> f.ll_old, seen |-> <<>>]
  ELSE LET ll == CHOOSE v \in {classifier_log_likelihood(c, f.train_toks)} : TRUE
           b1 == f.ll_cutoff # None /\ RLt(RNeg(f.ll_cutoff), ll)
           unbound == ~b1 /\ f.lldelta_cutoff # None /\ f.ll_old = Unbound
           b2 == /\ ~b1 /\ ~unbound /\ f.lldelta_cutoff # None
                 /\ RLt(RSub(ll, f.ll_old), f.lldelta_cutoff)
       IN  [brk |-> b1 \/ b2,
            exc |-> IF unbound THEN "UnboundLocalError" ELSE "none",
            ll |-> ll,
            ll_old |-> IF ~b1 /\ ~b2 /\ ~unbound /\ f.lldelta_cutoff # None
                       THEN ll ELSE f.ll_old,
            seen |-> <<ll>>]

\* iis, lines 370-376: the accuracy cutoffs after an update
IisCheckAcc(f, c) ==
  IF f.acc_cutoff = None /\ f.accdelta_cutoff = None
  THEN [brk |-> FALSE, exc |-> "none", acc |-> f.acc, acc_old |-> f.acc_old, seen |-> <<>>]
  ELSE LET acc == CHOOSE v \in {classifier_accuracy(c, f.train_toks)} : TRUE
           b1 == f.acc_cutoff # None /\ RLt(acc, f.acc_cutoff)
           unbound == ~b1 /\ f.accdelta_cutoff # None /\ f.acc_old = Unbound
           b2 == /\ ~b1 /\ ~unbound /\ f.accdelta_cutoff # None
                 /\ RLt(RSub(f.acc_old, acc), f.accdelta_cutoff)
       IN  [brk |-> b1 \/ b2,
            exc |-> IF unbound THEN "UnboundLocalError" ELSE "none",
            acc |-> acc,
            acc_old |-> IF ~b1 /\ ~b2 /\ ~unbound /\ f.accdelta_cutoff # None
                        THEN acc ELSE f.acc_old,
            seen |-> <<acc>>]

\* the values iterations can take after the keyword loop (lines 280-297):
\* 'iter' is read as 'iterations'; given both, the one the dictionary
\* yields last wins
IisIterations(kw) ==
  (IF "iterations" \in kw.keys THEN {kw.iterations} ELSE {})
  \cup (IF "iter" \in kw.keys THEN {kw.iter} ELSE {})
  \cup (IF kw.keys \cap {"iterations", "iter"} = {} THEN {10} ELSE {})

\* the labels iis trains with (lines 298-302)
IisLabels(kw, train_toks) == attested_labels(train_toks)

\* the call of iis up to the loop (lines 232-343)
IisCall(train_toks, kw) ==
  /\ pc = "idle"
  /\ ret' = ret
  /\ hist' = NoHist
  /\ IF ~(kw.keys \subseteq IisKeys)
     THEN /\ pc' = "raised"
          /\ clf' = clf
          /\ tr' = [NoFrame EXCEPT !.trainer = "iis", !.train_toks = train_toks,
                                   !.kwargs = kw, !.exc = "TypeError"]
     ELSE \E iterations \in IisIterations(kw) :
          \E labels \in {IisLabels(kw, train_toks)} :
          \E encoding \in {train("sparse", train_toks)} :
          \E offsets \in {Offsets(labels, encoding)} :
          \E emperical_ffreq \in
               {EmpericalFfreq(calculate_emperical_fcount(train_toks, encoding, offsets),
                               Len(train_toks))} :
          \E nfmap \in calculate_nfmap(train_toks, encoding) :
          \E unattested \in {Unattested(emperical_ffreq)} :
          \E weights \in {InitialWeights(unattested)} :
          \E classifier \in {Classifier(labels, encoding, weights)} :
          \E f \in {[NoFrame EXCEPT
                      !.trainer = "iis", !.train_toks = train_toks, !.kwargs = kw,
                      !.iterations = iterations,
                      !.debug = IF "debug" \in kw.keys THEN kw.debug ELSE 3,
                      !.ll_cutoff = IF "log_likelihood_cutoff" \in kw.keys
                                    THEN RAbs(kw.ll) ELSE None,
                      !.lldelta_cutoff = IF "delta_log_likelihood_cutoff" \in kw.keys
                                         THEN RAbs(kw.lldelta) ELSE None,
                      !.acc_cutoff = IF "accuracy_cutoff" \in kw.keys
                                     THEN RAbs(kw.acc) ELSE None,
                      !.accdelta_cutoff = IF "delta_accuracy_cutoff" \in kw.keys
                                          THEN RAbs(kw.accdelta) ELSE None,
                      !.labels = labels, !.encoding = encoding, !.offsets = offsets,
                      !.emperical_ffreq = emperical_ffreq, !.unattested = unattested,
                      !.nfmap = nfmap, !.nfarray = NfArray(nfmap)]} :
              IF LengthOK(classifier, weights)
              THEN /\ clf' = classifier
                   /\ tr' = f
                   /\ pc' = "iis_loop"
              ELSE /\ clf' = clf
                   /\ tr' = [f EXCEPT !.exc = "AssertionError"]
                   /\ pc' = "raised"

\* one outer iteration of iis (lines 346-376)
IisIterate ==
  /\ pc = "iis_loop"
  /\ RangeHasNext(tr.iternum, tr.iterations)
  /\ ret' = ret
  /\ \E f0 \in {Report(tr, clf)} :
     \E newton \in {calculate_deltas(tr.train_toks, clf, tr.unattested,
                                     tr.emperical_ffreq, tr.nfmap, tr.nfarray,
                                     tr.offsets, tr.encoding)} :
     \E weights \in {IisUpdate(clf.weights, newton.deltas)} :
     \E c \in {set_weights(clf, weights)} :
     \E cl \in {IisCheckLL(f0, c)} :
     \E f1 \in {[f0 EXCEPT !.ll = cl.ll, !.ll_old = cl.ll_old]} :
     \E ca \in {IF cl.brk \/ cl.exc # "none"
                THEN [brk |-> FALSE, exc |-> "none", acc |-> f1.acc,
                      acc_old |-> f1.acc_old, seen |-> <<>>]
                ELSE IisCheckAcc(f1, c)} :
     \E f2 \in {[f1 EXCEPT !.acc = ca.acc, !.acc_old = ca.acc_old]} :
     \E h \in {[hist EXCEPT !.sets = @ + 1, !.ws = @ \o <<weights>>,
                            !.lls = @ \o cl.seen, !.accs = @ \o ca.seen,
                            !.newton = @ \o <<newton.steps>>]} :
         /\ clf' = c
         /\ IF set_weights_raises(clf, weights) # "none"
            THEN /\ pc' = "raised"
                 /\ tr' = [f0 EXCEPT !.exc = "AssertionError"]
                 /\ hist' = [hist EXCEPT !.sets = @ + 1, !.ws = @ \o <<weights>>]
            ELSE IF cl.exc # "none" \/ ca.exc # "none"
            THEN /\ pc' = "raised"
                 /\ tr' = [f2 EXCEPT !.exc = "UnboundLocalError"]
                 /\ hist' = h
            ELSE IF cl.brk \/ ca.brk
            THEN /\ pc' = "iis_break"
                 /\ tr' = f2
                 /\ hist' = [h EXCEPT !.broke = TRUE]
            ELSE /\ pc' = "iis_loop"
                 /\ tr' = [f2 EXCEPT !.iternum = @ + 1]
                 /\ hist' = h

\* after the loop (lines 378-384): the final report and the return
IisReturn ==
  /\ \/ pc = "iis_loop" /\ ~RangeHasNext(tr.iternum, tr.iterations)
     \/ pc = "iis_break"
  /\ pc' = "live"
  /\ tr' = Report(tr, clf)
  /\ UNCHANGED <<clf, ret, hist>>

Init ==
  /\ pc = "idle"
  /\ clf = NoClf
  /\ ret = NoRet
  /\ tr = NoFrame
  /\ hist = NoHist

Next ==
  \/ pc = "idle" /\ \E train_toks \in Corpora, kw \in Kwargs : GisCall(train_toks, kw)
  \/ GisIterate
  \/ GisReturn
  \/ pc = "idle" /\ \E train_toks \in Corpora, kw \in Kwargs : IisCall(train_toks, kw)
  \/ IisIterate
  \/ IisReturn

Spec == Init /\ [][Next]_vars

\* ------------------------------------------------------------------------
\* Properties of gis
\* ------------------------------------------------------------------------
InGis == tr.trainer = "gis" /\ pc \in {"gis_loop", "gis_break", "live"}

\* C5: under GIS a weight whose empirical feature count is zero is exactly
\* 0 when the classifier is built and after every outer iteration
C5_UnattestedStayZero ==
  InGis => \A j \in DOMAIN clf.weights :
             tr.emperical_fcount[j] = Zero => clf.weights[j] = Zero

C5_Witness ==
  /\ InGis
  /\ hist.sets >= 2
  /\ \E j \in DOMAIN clf.weights : tr.emperical_fcount[j] = Zero
  /\ \E j \in DOMAIN clf.weights : clf.weights[j] \notin {Zero, One}

\* gis was called with the accuracy-delta cutoff and no other cutoff
OnlyAccDelta ==
  /\ tr.trainer = "gis"
  /\ "accdelta_cutoff" \in tr.kwargs.keys
  /\ tr.kwargs.keys \subseteq {"accdelta_cutoff", "iterations", "debug"}

\* the accuracy gain of the latest outer iteration over the one before
LastGain == RSub(hist.accs[Len(hist.accs)], hist.accs[Len(hist.accs) - 1])

\* C8: with only the accuracy-delta cutoff, gis leaves its loop after an
\* outer iteration exactly when that iteration's accuracy gain over the
\* previous iteration is below the cutoff
C8_StopsOnSmallGain ==
  (OnlyAccDelta /\ pc \in {"gis_loop", "gis_break"} /\ Len(hist.accs) >= 1)
  => (pc = "gis_break"
        <=> (Len(hist.accs) >= 2 /\ RLt(LastGain, tr.accdelta_cutoff)))

\* ------------------------------------------------------------------------
\* Properties of the trainers' keyword handling
\* ------------------------------------------------------------------------
\* a trainer call failed on its keywords before doing anything: no encoding
\* was trained, no classifier was built, no weight was set
RejectedEagerly ==
  /\ pc = "raised"
  /\ tr.exc = "TypeError"
  /\ tr.encoding = Encoding("none", <<>>)
  /\ clf = NoClf
  /\ hist.sets = 0

\* C3 (as stated): a trainer call with a key outside the seven documented
\* ones fails before an encoding is trained, a classifier is built or a
\* weight is updated
C3_UnlistedKeyRejected ==
  (tr.trainer \in {"gis", "iis"} /\ ~(tr.kwargs.keys \subseteq DocKeys))
  => RejectedEagerly

\* C3 (amended): gis fails eagerly on a keyword that is not one of its six
\* parameters, and iis on a key that is neither one of the seven documented
\* ones nor 'iter'
C3_UnknownKeyRejected ==
  /\ (tr.trainer = "gis"
        /\ ~(tr.kwargs.keys \subseteq {"ll_cutoff", "lldelta_cutoff", "acc_cutoff",
                                       "accdelta_cutoff", "debug", "iterations"}))
     => RejectedEagerly
  /\ (tr.trainer = "iis" /\ ~(tr.kwargs.keys \subseteq DocKeys \cup {"iter"}))
     => RejectedEagerly

C3_Witness ==
  /\ tr.trainer = "iis"
  /\ "verbose" \in tr.kwargs.keys
  /\ "iterations" \in tr.kwargs.keys
  /\ RejectedEagerly

\* ------------------------------------------------------------------------
\* Properties of iis
\* ------------------------------------------------------------------------
\* C4: when iis is given labels, the classifier it returns has exactly
\* those labels, in that order, and the offsets are laid out over them
C4_ConfiguredLabelsUsed ==
  (tr.trainer = "iis" /\ pc = "live" /\ "labels" \in tr.kwargs.keys)
  => /\ clf.labels = tr.kwargs.labels
     /\ tr.offsets = Offsets(tr.kwargs.labels, tr.encoding)

\* iis was called with the accuracy cutoff and no other cutoff
OnlyAccCutoff ==
  /\ tr.trainer = "iis"
  /\ "accuracy_cutoff" \in tr.kwargs.keys
  /\ tr.kwargs.keys \subseteq {"accuracy_cutoff", "iterations", "iter", "debug", "labels"}

\* C9: with the accuracy cutoff, iis leaves its loop after an outer
\* iteration whose accuracy is above the cutoff and goes on after one
\* whose accuracy is below it
C9_StopsWhenAccurate ==
  (OnlyAccCutoff /\ pc \in {"iis_loop", "iis_break"} /\ Len(hist.accs) >= 1)
  => LET acc == hist.accs[Len(hist.accs)]
     IN  /\ RLt(tr.acc_cutoff, acc) => pc = "iis_break"
         /\ RLt(acc, tr.acc_cutoff) => pc = "iis_loop"

\* C10: with a delta cutoff, iis runs without error: no call with known
\* keys ends in an exception
C10_DeltaCutoffsRun ==
  (/\ tr.trainer = "iis"
   /\ tr.kwargs.keys \subseteq IisKeys
   /\ tr.kwargs.keys \cap {"delta_log_likelihood_cutoff", "delta_accuracy_cutoff"} # {})
  => (pc # "raised" /\ tr.exc = "none")

\* iis was called without an iterations value and without a cutoff
IisDefaultRun ==
  /\ tr.trainer = "iis"
  /\ tr.kwargs.keys \subseteq {"debug", "labels"}

\* C11: called without an iterations value, iis performs at most 20 outer
\* iterations, and exactly 20 when no cutoff stops it earlier
C11_DefaultIterations ==
  (IisDefaultRun /\ pc \in {"iis_loop", "iis_break", "live"})
  => /\ tr.iterations = 20
     /\ hist.sets <= 20
     /\ pc = "live" => hist.sets = 20

\* ------------------------------------------------------------------------
\* Termination of the trainers
\* ------------------------------------------------------------------------
\* the steps of a trainer that has been called
Run == GisIterate \/ GisReturn \/ IisIterate \/ IisReturn

\* Run can take a step exactly between a trainer's call and its return:
\* the loop either has another pass or is left, and each step changes pc
\* or iternum (this is ENABLED <<Run>>_vars, written as a state predicate)
RunEnabled == pc \in {"gis_loop", "gis_break", "iis_loop", "iis_break"}

\* the calls considered for termination and for the comparison of debug
\* settings
MaxFairKeys == 1
FairKwargs == UNION {KwargsOf(ks) : ks \in {k \in KeySets : Cardinality(k) <= MaxFairKeys}}

FairNext ==
  \/ pc = "idle" /\ \E train_toks \in Corpora, kw \in FairKwargs : GisCall(train_toks, kw)
  \/ GisIterate
  \/ GisReturn
  \/ pc = "idle" /\ \E train_toks \in Corpora, kw \in FairKwargs : IisCall(train_toks, kw)
  \/ IisIterate
  \/ IisReturn

\* a trainer that was called goes on until it returns or raises: weak
\* fairness of Run, WF_vars(Run), with its enabling condition written out
FairSpec == Init /\ [][FairNext]_vars /\ ([]<>(~RunEnabled) \/ []<><<Run>>_vars)

InLoop == pc \in {"gis_loop", "iis_loop"}

\* no cutoff was configured
NoCutoffs ==
  /\ tr.ll_cutoff = None /\ tr.lldelta_cutoff = None
  /\ tr.acc_cutoff = None /\ tr.accdelta_cutoff = None

\* the number of set_weights calls so far is the number of outer iterations
\* performed, never more than the cap, and the cap itself at a return
\* without cutoffs
C12_Counts ==
  /\ hist.sets <= tr.iterations
  /\ InLoop => hist.sets = tr.iternum
  /\ pc \in {"gis_break", "iis_break"} => hist.sets = tr.iternum + 1
  /\ (pc = "live" /\ NoCutoffs) => (hist.sets = tr.iterations /\ ~hist.broke)

\* the weights are replaced only by an outer iteration, once
C12_OncePerIteration ==
  /\ (pc # "idle" /\ (clf' # clf \/ hist'.sets # hist.sets))
     => (InLoop /\ hist'.sets = hist.sets + 1)
  /\ (InLoop /\ pc' # "live") => hist'.sets = hist.sets + 1

\* C12: gis and iis terminate; they perform at most `iterations` outer
\* iterations, call set_weights exactly once in each and never elsewhere,
\* and without cutoffs return after exactly `iterations` updates
C12_Terminates ==
  /\ []C12_Counts
  /\ [][C12_OncePerIteration]_vars
  /\ (pc # "idle") ~> (pc \in {"live", "raised"})

C12_Witness ==
  /\ pc = "live"
  /\ NoCutoffs
  /\ ~hist.broke
  /\ hist.sets = 2
  /\ tr.iterations = 2
  /\ clf.weights # InitialWeights(tr.unattested)

\* ------------------------------------------------------------------------
\* Properties of calculate_deltas
\* ------------------------------------------------------------------------
\* iis is about to call calculate_deltas
BeforeDeltas ==
  tr.trainer = "iis" /\ pc = "iis_loop" /\ RangeHasNext(tr.iternum, tr.iterations)

\* the Newton loop state after n passes from deltas of 1.0 everywhere
PassesFromOnes(A, n) ==
  Newton([deltas |-> [i \in DOMAIN clf.weights |-> One], steps |-> 0, returned |-> FALSE],
         n, A, tr.nfarray, tr.unattested, tr.emperical_ffreq)

\* the A matrix of the call about to be made
ANow == AMatrix(tr.train_toks, clf, tr.nfmap, tr.offsets, tr.encoding)

\* what the call about to be made returns
DeltasNow ==
  calculate_deltas(tr.train_toks, clf, tr.unattested, tr.emperical_ffreq,
                   tr.nfmap, tr.nfarray, tr.offsets, tr.encoding)

\* C13: every call of calculate_deltas starts from 1.0 at every index,
\* takes at most MAX_NEWTON steps and returns a vector of length N*L:
\* at the first step whose relative residual is below the tolerance, or
\* else after the last step, without an error for non-convergence
C13_NewtonBounded ==
  /\ \A k \in DOMAIN hist.newton : hist.newton[k] \in 1..MAX_NEWTON
  /\ (tr.trainer = "iis" /\ pc = "raised" /\ hist.sets > 0)
     => tr.exc = "UnboundLocalError"
  /\ BeforeDeltas
     => \A r \in {DeltasNow}, A \in {ANow} :
          /\ r = PassesFromOnes(A, MAX_NEWTON)
          /\ Len(r.deltas) = length(tr.encoding) * Len(clf.labels)
          /\ r.steps \in 1..MAX_NEWTON
          /\ r.returned
             => /\ r = PassesFromOnes(A, r.steps)
                /\ ~PassesFromOnes(A, r.steps - 1).returned
          /\ ~r.returned => r.steps = MAX_NEWTON

C13_Witness ==
  /\ tr.trainer = "iis"
  /\ pc = "live"
  /\ Len(hist.newton) >= 2
  /\ hist.newton[1] = MAX_NEWTON
  /\ hist.sets = Len(hist.newton)

\* ------------------------------------------------------------------------
\* calculate_nfmap on its own
\* ------------------------------------------------------------------------
MaxToks == 3

\* every token, and every corpus of at most MaxToks tokens
Toks == {Tok(fs, label) : fs \in Observations, label \in Labels}
SmallCorpora == SeqsOf(Toks, 1, MaxToks)

NfInit ==
  /\ pc = "nf_idle"
  /\ clf = NoClf
  /\ ret = NoRet
  /\ hist = NoHist
  /\ \E train_toks \in SmallCorpora :
       tr = [NoFrame EXCEPT !.trainer = "iis", !.train_toks = train_toks,
                            !.encoding = train("sparse", train_toks)]

\* iis, lines 321-322: nfmap and the nfarray built from it
CalculateNfmap ==
  /\ pc = "nf_idle"
  /\ pc' = "nf_done"
  /\ \E nfmap \in calculate_nfmap(tr.train_toks, tr.encoding) :
       tr' = [tr EXCEPT !.nfmap = nfmap, !.nfarray = NfArray(nfmap)]
  /\ UNCHANGED <<clf, ret, hist>>

NfNext == CalculateNfmap

SpecNf == NfInit /\ [][NfNext]_vars

\* the nf values attested in the corpus: the number of active features
AttestedNf == {Cardinality(t.fs) : t \in Range(tr.train_toks)}

\* C14: calculate_nfmap returns a bijection from the K attested nf values
\* onto 0..K-1 and nfarray is its inverse; a corpus whose tokens all have
\* exactly one active feature gives the single entry nf = 1
C14_NfmapBijection ==
  pc = "nf_done"
  => /\ DOMAIN tr.nfmap = AttestedNf
     /\ {tr.nfmap[nf] : nf \in AttestedNf} = 0..(Cardinality(AttestedNf) - 1)
     /\ \A a, b \in AttestedNf : a # b => tr.nfmap[a] # tr.nfmap[b]
     /\ Len(tr.nfarray) = Cardinality(AttestedNf)
     /\ \A nf \in AttestedNf : tr.nfarray[tr.nfmap[nf] + 1] = nf
     /\ (\A t \in Range(tr.train_toks) : Cardinality(t.fs) = 1)
        => (DOMAIN tr.nfmap = {1} /\ tr.nfmap[1] = 0)

C14_Witness ==
  /\ pc = "nf_done"
  /\ AttestedNf = {0, 1, 2}
  /\ tr.nfmap[2] = 0
  /\ tr.nfmap[0] = 1
  /\ tr.nfarray = <<2, 0, 1>>

\* ------------------------------------------------------------------------
\* The same call under another debug setting
\* ------------------------------------------------------------------------
\* the debug level a call runs with
DebugOf(kw) == IF "debug" \in kw.keys THEN kw.debug ELSE 3

\* the keyword dictionaries that differ from kw in the debug level only
OtherDebug(kw) ==
  {[kw EXCEPT !.keys = @ \cup {"debug"}, !.debug = d] : d \in DebugVals \ {DebugOf(kw)}}

\* a finished call is put aside (its arguments, the weight vectors it
\* produced and its outcome) so that the call can be made again
CallAgain ==
  /\ pc \in {"live", "raised"}
  /\ ret = NoRet
  /\ ret' = Ret(tr.trainer, tr.exc, FALSE, tr, [pc |-> pc, clf |-> clf, hist |-> hist])
  /\ pc' = "idle"
  /\ clf' = NoClf
  /\ tr' = NoFrame
  /\ hist' = NoHist

DebugNext ==
  \/ pc = "idle" /\ ret = NoRet
       /\ \E train_toks \in Corpora, kw \in FairKwargs : GisCall(train_toks, kw)
  \/ GisIterate
  \/ GisReturn
  \/ pc = "idle" /\ ret = NoRet
       /\ \E train_toks \in Corpora, kw \in FairKwargs : IisCall(train_toks, kw)
  \/ IisIterate
  \/ IisReturn
  \/ CallAgain
  \/ pc = "idle" /\ ret.op = "gis"
       /\ \E kw \in OtherDebug(ret.arg.kwargs) : GisCall(ret.arg.train_toks, kw)
  \/ pc = "idle" /\ ret.op = "iis"
       /\ \E kw \in OtherDebug(ret.arg.kwargs) : IisCall(ret.arg.train_toks, kw)

SpecDebug == Init /\ [][DebugNext]_vars

\* the call in progress repeats, under another debug level, the call put
\* aside (same trainer, corpus, cutoffs and iteration cap)
Repeating ==
  /\ ret.op \in {"gis", "iis"}
  /\ tr.trainer = ret.op
  /\ DebugOf(tr.kwargs) # DebugOf(ret.arg.kwargs)
  /\ tr.iterations = ret.arg.iterations

\* C15: the weight vectors gis and iis produce, the number of iterations,
\* the stopping decision and the classifier returned are the same under
\* every debug setting
C15_DebugIndependent ==
  Repeating
  => /\ Len(hist.ws) <= Len(ret.val.hist.ws)
     /\ hist.ws = SubSeq(ret.val.hist.ws, 1, Len(hist.ws))
     /\ pc \in {"live", "raised"}
        => /\ pc = ret.val.pc
           /\ tr.exc = ret.raised
           /\ clf = ret.val.clf
           /\ hist.ws = ret.val.hist.ws
           /\ hist.sets = ret.val.hist.sets
           /\ hist.broke = ret.val.hist.broke
           /\ tr.iternum = ret.arg.iternum

C15_Witness ==
  /\ Repeating
  /\ pc = "live"
  /\ tr.trainer = "gis"
  /\ tr.debug = 0
  /\ ret.arg.debug = 3
  /\ hist.broke
  /\ Len(hist.ws) >= 2
  /\ hist.ws[1] # hist.ws[2]
  /\ tr.ll = Unbound
  /\ ret.arg.ll # Unbound

ClfInit ==
  /\ pc = "idle"
  /\ clf = NoClf
  /\ ret = NoRet
  /\ tr = NoFrame
  /\ hist = NoHist

ClfNext ==
  \/ \E ls \in LabelLists, enc \in Encodings, ws \in WeightVectors : Construct(ls, enc, ws)
  \/ \E ws \in WeightVectors : SetWeights(ws)
  \/ \E fs \in CallObservations, pyfloat \in BOOLEAN : Probdist(fs, pyfloat)
  \/ \E b \in Batches, pyfloat \in BOOLEAN : ProbdistBatch(b, pyfloat)
  \/ \E fs \in CallObservations, pyfloat \in BOOLEAN : Classify(fs, pyfloat)
  \/ \E b \in Batches, pyfloat \in BOOLEAN : ClassifyBatch(b, pyfloat)

SpecClf == ClfInit /\ [][ClfNext]_vars


====
